---- MODULE Spec2Model ----
(***************************************************************************)
(* Model of hybpiper/gene_recovery_heatmap.py: standalone() parses the     *)
(* command line, main() reads the seq_lengths table, divides every gene    *)
(* column by its MeanLength (row 0), caps the ratios at 1, drops row 0,    *)
(* melts and pivots the frame, derives the figure dimensions, draws the    *)
(* seaborn heatmap on the current pyplot figure and saves it.              *)
(*                                                                         *)
(* Names (gene ids, sample ids) are naturals whose numeric order stands    *)
(* for the lexicographic order of the strings.  Numbers are records        *)
(* [k, n, d]: k = "int" (python int n), "float" (the float n/d, reduced),  *)
(* "inf" or "nan".  An optional argument is [set, v] (set = FALSE: None).  *)
(***************************************************************************)
EXTENDS Integers, Sequences, FiniteSets, TLC

\* ---------------------------------------------------------------- bounds
MaxGenes == 2
MaxSamples == 2
MaxLenVal == 2
MaxOverride == 2
MaxShape == 2
MaxRuns == 2

\* ------------------------------------------------------- program constants
DefaultTextSize == 10
PerInch == 3
Choices == {"png", "pdf", "eps", "tiff", "svg"}
StandaloneAttrs == {"seq_lengths_file", "heatmap_filename", "figure_length",
                    "figure_height", "sample_text_size", "gene_text_size",
                    "heatmap_filetype", "heatmap_dpi"}
IdVars == "Species"

\* ------------------------------------------------------------- arithmetic
Abs(x) == IF x < 0 THEN 0 - x ELSE x

RECURSIVE Gcd(_, _)
Gcd(a, b) == IF b = 0 THEN a ELSE Gcd(b, a % b)

IntNum(v) == [k |-> "int", n |-> v, d |-> 1]

Float(n, d) ==
    LET g == Gcd(Abs(n), d)
    IN  [k |-> "float", n |-> n \div g, d |-> d \div g]

Inf == [k |-> "inf", n |-> 1, d |-> 0]
NaN == [k |-> "nan", n |-> 0, d |-> 0]

IsFinite(x) == x.k \in {"int", "float"}

\* numpy true division of two integer lengths (errors are suppressed by pandas)
TrueDiv(s, r) ==
    IF r # 0 THEN Float(s, r)
    ELSE IF s = 0 THEN NaN ELSE Inf

LessThanOne_NanPasses(x) == x.k = "nan" \/ (IsFinite(x) /\ x.n < x.d)

\* x < 1 as numpy evaluates it: False for nan and for +inf
LessThanOne(x) == IsFinite(x) /\ x.n < x.d

Leq(a, b) == a.n * b.d <= b.n * a.d

None == [set |-> FALSE, v |-> 0]
Some(v) == [set |-> TRUE, v |-> v]

\* python truth value of an optional int
Truthy(o) == o.set /\ o.v # 0

\* ------------------------------------------------------------------ input
IdColNames == {"Species", "Sample"}

InjSeqs(S, n) == {s \in [1..n -> S] : \A i, j \in 1..n : i # j => s[i] # s[j]}

Descending(n) == [i \in 1..n |-> n + 1 - i]

\* tables that vary the lengths: any MeanLength per gene, any length per
\* sample; genes and samples are listed in descending name order
ValueTables(ng, ns) ==
    {[idcol |-> "Species", genes |-> Descending(ng), ids |-> <<0>> \o Descending(ns),
      vals |-> [i \in 1..(ns + 1) |-> [j \in 1..ng |-> IF i = 1 THEN ref[j] ELSE len[i - 1]]]] :
        ref \in [1..ng -> 0..MaxLenVal], len \in [1..ns -> 0..MaxLenVal]}

\* tables that vary the labels: any header for column 0, any order of distinct
\* gene names, any sample ids (repeats included); the length of a cell is
\* fixed by its sample id and gene name
NameTables(ng, ns) ==
    {[idcol |-> h, genes |-> g, ids |-> <<0>> \o s,
      vals |-> [i \in 1..(ns + 1) |-> [j \in 1..ng |->
                  IF i = 1 THEN MaxLenVal ELSE (s[i - 1] + g[j]) % (MaxLenVal + 1)]]] :
        h \in IdColNames, g \in InjSeqs(1..MaxGenes, ng), s \in [1..ns -> 1..MaxSamples]}

TablesOf(ng, ns) == ValueTables(ng, ns) \cup NameTables(ng, ns)

NoTable == [idcol |-> "Species", genes |-> <<>>, ids |-> <<>>, vals |-> <<>>]

OverrideVals == {None} \cup {Some(v) : v \in (0 - MaxOverride)..MaxOverride}

Filetypes == Choices \cup {"bmp"}

VARIABLES fs, args, namespace, pc, df, params, err, rc, fig, outFile, run

vars == <<fs, args, namespace, pc, df, params, err, rc, fig, outFile, run>>

\* ------------------------------------------------------- data frame steps
RECURSIVE SortedSeq(_)
SortedSeq(S) ==
    IF S = {} THEN <<>>
    ELSE LET m == CHOOSE x \in S : \A y \in S : x <= y
         IN  <<m>> \o SortedSeq(S \ {m})

NoFrame == [kind |-> "none"]

\* pd.read_csv: a wide frame with the default RangeIndex 0..m-1
ReadCsv(t) ==
    [kind |-> "wide", idcol |-> t.idcol, genes |-> t.genes,
     index |-> [i \in 1..Len(t.ids) |-> i - 1], ids |-> t.ids,
     vals |-> [i \in 1..Len(t.ids) |-> [j \in 1..Len(t.genes) |-> IntNum(t.vals[i][j])]]]

\* df.loc[:, genes] = df.loc[:, genes].div(df.iloc[0][genes])
DivByMeanLength(d) ==
    [d EXCEPT !.vals = [i \in 1..Len(d.ids) |->
        [j \in 1..Len(d.genes) |-> TrueDiv(d.vals[i][j].n, d.vals[1][j].n)]]]

Where_NoCap(x) == x

\* one cell of df.where(cond, 1): kept where cond holds, else the int 1
Where(x) == IF LessThanOne(x) THEN x ELSE IntNum(1)

\* df.where(df.loc[:, genes] < 1, 1, inplace=True); the id column is not in
\* cond and is kept
CapAtOne(d) ==
    [d EXCEPT !.vals = [i \in 1..Len(d.ids) |->
        [j \in 1..Len(d.genes) |-> Where(d.vals[i][j])]]]

\* df.drop(labels=0, axis=0, inplace=True)
DropMeanLengths(d) ==
    LET keep == {i \in 1..Len(d.index) : d.index[i] # 0}
        pos == SortedSeq(keep)
    IN  [d EXCEPT !.index = [i \in 1..Len(pos) |-> d.index[pos[i]]],
                  !.ids = [i \in 1..Len(pos) |-> d.ids[pos[i]]],
                  !.vals = [i \in 1..Len(pos) |-> d.vals[pos[i]]]]

\* df.melt(id_vars=['Species'], ...): one long row per (gene column, frame row),
\* gene by gene
Melt(d) ==
    LET m == Len(d.ids)
    IN  [kind |-> "long",
         rows |-> [r \in 1..(m * Len(d.genes)) |->
            LET j == ((r - 1) \div m) + 1
                i == ((r - 1) % m) + 1
            IN  [Species |-> d.ids[i], gene_id |-> d.genes[j],
                 percentage_recovery |-> d.vals[i][j]]]]

\* pd.to_numeric on one value; the column becomes float64
ToNumeric(x) == IF x.k = "int" THEN Float(x.n, 1) ELSE x

ApplyToNumeric(l) ==
    [l EXCEPT !.rows = [r \in 1..Len(l.rows) |->
        [l.rows[r] EXCEPT !.percentage_recovery = ToNumeric(@)]]]

\* df.pivot raises ValueError when an (index, columns) pair occurs twice
HasDuplicateEntries(l) ==
    \E a, b \in 1..Len(l.rows) :
        /\ a # b
        /\ l.rows[a].Species = l.rows[b].Species
        /\ l.rows[a].gene_id = l.rows[b].gene_id

RECURSIVE PivotLabels_Descending(_)
PivotLabels_Descending(S) ==
    IF S = {} THEN <<>>
    ELSE LET m == CHOOSE x \in S : \A y \in S : x >= y
         IN  <<m>> \o PivotLabels_Descending(S \ {m})

\* the order in which pivot (set_index + unstack) lays out a set of labels
PivotLabels(S) == SortedSeq(S)

\* df.pivot(index='Species', columns='gene_id', values='percentage_recovery')
Pivot(l) ==
    LET R == 1..Len(l.rows)
        sp == {l.rows[r].Species : r \in R}
        ge == {l.rows[r].gene_id : r \in R}
    IN  [kind |-> "matrix", index |-> PivotLabels(sp), columns |-> PivotLabels(ge),
         values |-> [c \in sp \X ge |->
            l.rows[CHOOSE r \in R : l.rows[r].Species = c[1] /\ l.rows[r].gene_id = c[2]]
                .percentage_recovery]]

\* ------------------------------------------------------ figure dimensions
GetFigureDimensions_Swapped(d, figure_length, figure_height, sample_text_size, gene_text_size) ==
    [sample_text_size |->
        IF Truthy(sample_text_size) THEN IntNum(sample_text_size.v) ELSE IntNum(DefaultTextSize),
     gene_id_text_size |->
        IF Truthy(gene_text_size) THEN IntNum(gene_text_size.v) ELSE IntNum(DefaultTextSize),
     figure_height |->
        IF Truthy(figure_height) THEN IntNum(figure_height.v) ELSE Float(Len(d.columns), PerInch),
     fig_length |->
        IF Truthy(figure_length) THEN IntNum(figure_length.v) ELSE Float(Len(d.index), PerInch)]

GetFigureDimensions(d, figure_length, figure_height, sample_text_size, gene_text_size) ==
    LET num_samples == Len(d.index)
        num_genes == Len(d.columns)
    IN  [sample_text_size |->
            IF Truthy(sample_text_size) THEN IntNum(sample_text_size.v)
            ELSE IntNum(DefaultTextSize),
         gene_id_text_size |->
            IF Truthy(gene_text_size) THEN IntNum(gene_text_size.v)
            ELSE IntNum(DefaultTextSize),
         figure_height |->
            IF Truthy(figure_height) THEN IntNum(figure_height.v)
            ELSE Float(num_samples, PerInch),
         fig_length |->
            IF Truthy(figure_length) THEN IntNum(figure_length.v)
            ELSE Float(num_genes, PerInch)]

NoParams ==
    [sample_text_size |-> IntNum(0), gene_id_text_size |-> IntNum(0),
     figure_height |-> IntNum(0), fig_length |-> IntNum(0)]

\* ---------------------------------------------------------------- drawing
\* the largest finite cell: the vmax seaborn takes from the data when the
\* caller passes none
NanMax(m) ==
    LET cells == {m.values[c] : c \in DOMAIN m.values}
        fin == {x \in cells : IsFinite(x)}
    IN  CHOOSE x \in fin : \A y \in fin : Leq(y, x)

\* sns.heatmap(df, vmin=0, cmap='bone_r')
HeatmapLayer(m) ==
    [data |-> m, vmin |-> IntNum(0), vmax |-> NanMax(m), cmap |-> "bone_r"]

\* position of the value x on the colour scale of a layer (matplotlib
\* Normalize: (x - vmin) / (vmax - vmin), 0 when vmin = vmax)
ColourPos(layer, x) ==
    LET lo == layer.vmin
        hi == layer.vmax
        num == (x.n * lo.d - lo.n * x.d) * (hi.d * lo.d)
        den == (hi.n * lo.d - lo.n * hi.d) * (x.d * lo.d)
    IN  IF den = 0 THEN Float(0, 1) ELSE Float(num, den)

NoFigure ==
    [open |-> FALSE, w |-> IntNum(0), h |-> IntNum(0), layers |-> <<>>,
     xtick |-> IntNum(0), ytick |-> IntNum(0)]

\* matplotlib's rcParams['figure.figsize'] before any sns.set
DefaultRc == [w |-> Float(32, 5), h |-> Float(24, 5)]

\* the figure plt.gca() draws on: the current figure when there is one, else
\* a new one of the rcParams size
CurrentFigure(f, r) ==
    IF f.open THEN f
    ELSE [open |-> TRUE, w |-> r.w, h |-> r.h, layers |-> <<>>,
          xtick |-> IntNum(0), ytick |-> IntNum(0)]

\* formats Figure.savefig accepts
CanvasFormats ==
    {"eps", "jpeg", "jpg", "pdf", "pgf", "png", "ps", "raw", "rgba", "svg",
     "svgz", "tif", "tiff", "webp"}

NoFile == [written |-> FALSE, image |-> NoFigure]

SavedFile_OpenedFirst(before, f, filetype, writable) ==
    IF writable THEN [written |-> TRUE, image |-> f] ELSE before

\* the file at the output path after plt.savefig(path, ...)
SavedFile(before, f, filetype, writable) ==
    IF filetype \in CanvasFormats /\ writable
    THEN [written |-> TRUE, image |-> f]
    ELSE before

\* ------------------------------------------------------------ invocations
ScenarioTable ==
    [idcol |-> "Species", genes |-> <<1, 2>>, ids |-> <<0, 1, 2>>,
     vals |-> <<(<<100, 200>>), (<<50, 200>>), (<<150, 50>>)>>]

FullNamespace == StandaloneAttrs \cup {"output_folder"}

\* main(args) with the default arguments on the table t
TableInvocation(t) ==
    [entry |-> "main", exists |-> TRUE, table |-> t, writable |-> TRUE,
     figure_length |-> None, figure_height |-> None, sample_text_size |-> None,
     gene_text_size |-> None, heatmap_filetype |-> "png"]

ArgInvocations ==
    {[entry |-> e, exists |-> x, table |-> IF x THEN ScenarioTable ELSE NoTable,
      writable |-> w, figure_length |-> fl, figure_height |-> fh,
      sample_text_size |-> None, gene_text_size |-> None, heatmap_filetype |-> ft] :
        e \in {"standalone", "main"}, x \in BOOLEAN, w \in BOOLEAN,
        fl \in OverrideVals, fh \in OverrideVals, ft \in Filetypes}

\* invocations of the runs that share one process
RunInvocations ==
    {[entry |-> e, exists |-> TRUE, table |-> t, writable |-> TRUE,
      figure_length |-> fl, figure_height |-> None, sample_text_size |-> None,
      gene_text_size |-> None, heatmap_filetype |-> "png"] :
        e \in {"standalone", "main"}, fl \in {None, Some(MaxOverride)},
        t \in {ScenarioTable} \cup {u \in ValueTables(1, 1) : u.vals[1][1] > 0}}

\* the table and the matrix of ns samples that recovered ng genes in full
FullRecoveryTable(ns, ng) ==
    [idcol |-> IdVars, genes |-> [j \in 1..ng |-> j], ids |-> [i \in 1..(ns + 1) |-> i - 1],
     vals |-> [i \in 1..(ns + 1) |-> [j \in 1..ng |-> 1]]]

FullRecoveryMatrix(ns, ng) ==
    [kind |-> "matrix", index |-> [i \in 1..ns |-> i], columns |-> [j \in 1..ng |-> j],
     values |-> [c \in (1..ns) \X (1..ng) |-> Float(1, 1)]]

Shapes == ((1..MaxShape) \X (1..MaxShape)) \cup {<<30, 60>>}

ArgsOf(inv) ==
    [figure_length |-> inv.figure_length, figure_height |-> inv.figure_height,
     sample_text_size |-> inv.sample_text_size, gene_text_size |-> inv.gene_text_size,
     heatmap_filetype |-> inv.heatmap_filetype]

FsOf(inv) == [exists |-> inv.exists, table |-> inv.table, writable |-> inv.writable]

\* a fresh process about to run standalone() or main(args)
Launch(inv) ==
        /\ fs = FsOf(inv)
        /\ args = ArgsOf(inv)
        /\ namespace = IF inv.entry = "standalone" THEN {} ELSE FullNamespace
        /\ pc = inv.entry
        /\ df = NoFrame
        /\ params = NoParams
        /\ err = "none"
        /\ rc = DefaultRc
        /\ fig = NoFigure
        /\ outFile = NoFile
        /\ run = 1

Init ==
    \/ \E ng \in 1..MaxGenes, ns \in 1..MaxSamples :
          \E t \in TablesOf(ng, ns) : Launch(TableInvocation(t))
    \/ \E inv \in ArgInvocations : Launch(inv)

\* ---------------------------------------------------------------- actions
Fail(e) ==
    /\ pc' = "failed"
    /\ err' = e

\* standalone(), lines 100-141: parse_args rejects a filetype outside choices
Standalone ==
    /\ pc = "standalone"
    /\ IF args.heatmap_filetype \notin Choices
       THEN Fail("SystemExit") /\ UNCHANGED namespace
       ELSE pc' = "main" /\ namespace' = StandaloneAttrs /\ UNCHANGED err
    /\ UNCHANGED <<fs, args, df, params, rc, fig, outFile, run>>

\* main(), lines 151-167
ResolvePaths ==
    /\ pc = "main"
    /\ IF "output_folder" \notin namespace THEN Fail("AttributeError")
       ELSE IF ~fs.exists THEN Fail("SystemExit")
       ELSE pc' = "read" /\ UNCHANGED err
    /\ UNCHANGED <<fs, args, namespace, df, params, rc, fig, outFile, run>>

\* main(), line 170
ReadTable ==
    /\ pc = "read"
    /\ df' = ReadCsv(fs.table)
    /\ pc' = "normalise"
    /\ UNCHANGED <<fs, args, namespace, params, err, rc, fig, outFile, run>>

\* main(), lines 172-179
Normalise ==
    /\ pc = "normalise"
    /\ df' = DropMeanLengths(CapAtOne(DivByMeanLength(df)))
    /\ pc' = "reshape"
    /\ UNCHANGED <<fs, args, namespace, params, err, rc, fig, outFile, run>>

\* main(), lines 181-188
Reshape ==
    /\ pc = "reshape"
    /\ IF df.idcol # IdVars THEN Fail("KeyError") /\ UNCHANGED df
       ELSE IF HasDuplicateEntries(Melt(df)) THEN Fail("ValueError") /\ UNCHANGED df
       ELSE /\ df' = Pivot(ApplyToNumeric(Melt(df)))
            /\ pc' = "dims"
            /\ UNCHANGED err
    /\ UNCHANGED <<fs, args, namespace, params, rc, fig, outFile, run>>

\* main(), lines 190-195
Dimensions ==
    /\ pc = "dims"
    /\ params' = GetFigureDimensions(df, args.figure_length, args.figure_height,
                                      args.sample_text_size, args.gene_text_size)
    /\ pc' = "heatmap"
    /\ UNCHANGED <<fs, args, namespace, df, err, rc, fig, outFile, run>>

\* main(), lines 197-208; a new figure of negative size raises ValueError
Heatmap ==
    /\ pc = "heatmap"
    /\ rc' = [w |-> params.fig_length, h |-> params.figure_height]
    /\ LET ax == CurrentFigure(fig, rc')
       IN  IF ax.w.n < 0 \/ ax.h.n < 0
           THEN Fail("ValueError") /\ UNCHANGED fig
           ELSE /\ fig' = [ax EXCEPT !.layers = Append(@, HeatmapLayer(df)),
                                     !.xtick = params.gene_id_text_size,
                                     !.ytick = params.sample_text_size]
                /\ pc' = "savefig"
                /\ UNCHANGED err
    /\ UNCHANGED <<fs, args, namespace, df, params, outFile, run>>

\* main(), lines 211-214
SaveFig ==
    /\ pc = "savefig"
    /\ outFile' = SavedFile(outFile, fig, args.heatmap_filetype, fs.writable)
    /\ IF args.heatmap_filetype \notin CanvasFormats THEN Fail("ValueError")
       ELSE IF ~fs.writable THEN Fail("OSError")
       ELSE pc' = "done" /\ UNCHANGED err
    /\ UNCHANGED <<fs, args, namespace, df, params, rc, fig, run>>

Next ==
    \/ Standalone
    \/ ResolvePaths
    \/ ReadTable
    \/ Normalise
    \/ Reshape
    \/ Dimensions
    \/ Heatmap
    \/ SaveFig

Spec == Init /\ [][Next]_vars

\* main() is called again in the same process: the locals are new, pyplot's
\* current figure and rcParams are the module-level state left by the last run
StartRun ==
    /\ pc \in {"done", "failed"}
    /\ run < MaxRuns
    /\ \E inv \in RunInvocations :
        /\ fs' = FsOf(inv)
        /\ args' = ArgsOf(inv)
        /\ namespace' = IF inv.entry = "standalone" THEN {} ELSE FullNamespace
        /\ pc' = inv.entry
    /\ df' = NoFrame
    /\ params' = NoParams
    /\ err' = "none"
    /\ outFile' = NoFile
    /\ run' = run + 1
    /\ UNCHANGED <<rc, fig>>

InitRuns == \E inv \in RunInvocations : Launch(inv)

NextRuns == Next \/ StartRun

SpecRuns == InitRuns /\ [][NextRuns]_vars

\* get_figure_dimensions on its own: every shape and every combination of
\* the four optional arguments
InitDims ==
    \E sh \in Shapes, fl \in OverrideVals, fh \in OverrideVals,
       sts \in OverrideVals, gts \in OverrideVals :
        /\ fs = [exists |-> TRUE, table |-> FullRecoveryTable(sh[1], sh[2]), writable |-> TRUE]
        /\ args = [figure_length |-> fl, figure_height |-> fh, sample_text_size |-> sts,
                   gene_text_size |-> gts, heatmap_filetype |-> "png"]
        /\ namespace = FullNamespace
        /\ pc = "dims"
        /\ df = FullRecoveryMatrix(sh[1], sh[2])
        /\ params = NoParams
        /\ err = "none"
        /\ rc = DefaultRc
        /\ fig = NoFigure
        /\ outFile = NoFile
        /\ run = 1

NextDims == Dimensions

SpecDims == InitDims /\ [][NextDims]_vars

\* ----------------------------------------------------------------- claims
DistinctIds(t) == \A a, b \in 1..Len(t.ids) : a # b => t.ids[a] # t.ids[b]

SampleRows(t) == 2..Len(t.ids)

GeneCols(t) == 1..Len(t.genes)

HasMatrix == df.kind = "matrix"

\* the matrix cell of input row i and gene column j
CellOf(t, i, j) == df.values[<<t.ids[i], t.genes[j]>>]

\* C1: in the matrix main() builds, the cell of a sample length s and a
\* positive MeanLength r is the float s / r when s < r and the float 1.0 when
\* s >= r, so it lies in [0, 1].
C1_CellIsCappedRatio ==
    HasMatrix =>
        \A i \in SampleRows(fs.table), j \in GeneCols(fs.table) :
            LET s == fs.table.vals[i][j]
                r == fs.table.vals[1][j]
                c == CellOf(fs.table, i, j)
            IN  r > 0 =>
                    /\ c.k = "float" /\ c.d > 0
                    /\ s < r => c.n * r = s * c.d
                    /\ s >= r => c.n = 1 /\ c.d = 1
                    /\ 0 <= c.n /\ c.n <= c.d

C1_Witness ==
    /\ HasMatrix
    /\ pc = "done"
    /\ \E i \in SampleRows(fs.table), j \in GeneCols(fs.table) :
           0 < fs.table.vals[i][j] /\ fs.table.vals[i][j] < fs.table.vals[1][j]
    /\ \E i \in SampleRows(fs.table), j \in GeneCols(fs.table) :
           0 < fs.table.vals[1][j] /\ fs.table.vals[i][j] > fs.table.vals[1][j]

IsAscending(q) == \A a, b \in 1..Len(q) : a < b => q[a] < q[b]

Range(q) == {q[a] : a \in 1..Len(q)}

\* C2 as stated: the matrix rows are the sample ids in input order (row 0
\* removed) and the matrix columns are the gene names in header order.
C2_InputOrderKept ==
    HasMatrix =>
        /\ df.index = Tail(fs.table.ids)
        /\ df.columns = fs.table.genes

\* C2 amended: the matrix has one row per sample and one column per gene,
\* with the same labels as the input, each axis in ascending label order.
C2_LabelsSorted ==
    HasMatrix =>
        /\ Len(df.index) = Len(fs.table.ids) - 1
        /\ Len(df.columns) = Len(fs.table.genes)
        /\ Range(df.index) = Range(Tail(fs.table.ids))
        /\ Range(df.columns) = Range(fs.table.genes)
        /\ IsAscending(df.index)
        /\ IsAscending(df.columns)

C2_Witness ==
    /\ HasMatrix
    /\ pc = "done"
    /\ Len(fs.table.ids) = 3 /\ fs.table.ids[2] > fs.table.ids[3]
    /\ Len(fs.table.genes) = 2 /\ fs.table.genes[1] > fs.table.genes[2]

Drawn == pc \in {"savefig", "done"}

\* C3: the colour scale of the heatmap just drawn runs from 0 to 1 whatever
\* the matrix holds.
C3_ScaleFixed ==
    Drawn =>
        LET layer == fig.layers[Len(fig.layers)]
        IN  /\ layer.vmin.n = 0
            /\ layer.vmax.n = layer.vmax.d
            /\ \A c \in DOMAIN df.values :
                   ColourPos(layer, df.values[c]) = df.values[c]

Positive(o) == o.set /\ o.v > 0

NonPositive(o) == o.set /\ o.v <= 0

DimsReturned == pc = "heatmap"

C5_NonPositiveRejected ==
    (\/ NonPositive(args.figure_length) \/ NonPositive(args.figure_height)
     \/ NonPositive(args.sample_text_size) \/ NonPositive(args.gene_text_size))
        => pc \notin {"heatmap", "savefig", "done"}

\* C6: a run that has failed has written no file at its output path.
C6_NoFileOnFailure == pc = "failed" => ~outFile.written

C6_Witness ==
    /\ pc = "failed"
    /\ fig.open
    /\ args.heatmap_filetype = "bmp"
    /\ fs.writable

PastReshape == pc \in {"dims", "heatmap", "savefig", "done", "failed"} /\ df.kind # "none"

\* C7: whatever the header of column 0 is called, a table with distinct
\* sample ids is reshaped into the matrix of its samples and genes.
C7_IdColumnByPosition ==
    (PastReshape /\ DistinctIds(fs.table)) =>
        /\ HasMatrix
        /\ Range(df.index) = Range(Tail(fs.table.ids))
        /\ Range(df.columns) = Range(fs.table.genes)

ZeroRefCells(t) == {c \in SampleRows(t) \X GeneCols(t) : t.vals[1][c[2]] = 0}

Normalised == df.kind = "wide" /\ pc \in {"reshape", "failed"}

C9_RunsIndependent ==
    pc = "done" =>
        /\ outFile.written
        /\ outFile.image.w = params.fig_length
        /\ outFile.image.h = params.figure_height
        /\ Len(outFile.image.layers) = 1
        /\ outFile.image.layers[1].data = df

ValidRun ==
    /\ fs.exists /\ fs.writable
    /\ fs.table.idcol = IdVars /\ DistinctIds(fs.table)
    /\ args.heatmap_filetype \in Choices
    /\ ~NonPositive(args.figure_length) /\ ~NonPositive(args.figure_height)
    /\ ~NonPositive(args.sample_text_size) /\ ~NonPositive(args.gene_text_size)

\* C10: a run started through standalone() on an existing valid table does
\* not stop before the table is read and ends with the heatmap file written.
C10_StandaloneRunSaves ==
    (namespace = StandaloneAttrs /\ ValidRun) =>
        /\ pc # "failed"
        /\ pc = "done" => outFile.written

====
